---- MODULE Spec2Model ----
(***************************************************************************)
(* Model of the product catalog service: service/models.py (Product,      *)
(* Category, DataValidationError) and service/routes.py (the HTTP          *)
(* handlers).  Text is modelled as a sequence of one-character strings so  *)
(* that parsing, stripping and case folding are computed, not assumed.     *)
(***************************************************************************)
EXTENDS Integers, Sequences, FiniteSets, TLC

(***************************************************************************)
(* Bounds of the model                                                     *)
(***************************************************************************)
\* largest primary key the store's sequence hands out
MaxId == 2

(***************************************************************************)
(* Text                                                                    *)
(***************************************************************************)
DigitChars == <<"0", "1", "2", "3", "4", "5", "6", "7", "8", "9">>

Digits == {DigitChars[i] : i \in 1..Len(DigitChars)}

DigitVal(c) == (CHOOSE i \in 1..Len(DigitChars) : DigitChars[i] = c) - 1

\* str.lower() on the letters the model uses
LowerChar(c) ==
    CASE c = "T" -> "t" [] c = "R" -> "r" [] c = "U" -> "u" [] c = "E" -> "e"
      [] c = "Y" -> "y" [] c = "S" -> "s" [] c = "N" -> "n" [] c = "O" -> "o"
      [] c = "F" -> "f" [] c = "D" -> "d" [] c = "C" -> "c" [] c = "L" -> "l"
      [] c = "H" -> "h" [] c = "K" -> "k" [] c = "W" -> "w" [] c = "A" -> "a"
      [] c = "M" -> "m" [] c = "V" -> "v" [] c = "I" -> "i" [] c = "B" -> "b"
      [] OTHER -> c

\* str.upper() on the letters the model uses
UpperChar(c) ==
    CASE c = "t" -> "T" [] c = "r" -> "R" [] c = "u" -> "U" [] c = "e" -> "E"
      [] c = "y" -> "Y" [] c = "s" -> "S" [] c = "n" -> "N" [] c = "o" -> "O"
      [] c = "f" -> "F" [] c = "d" -> "D" [] c = "c" -> "C" [] c = "l" -> "L"
      [] c = "h" -> "H" [] c = "k" -> "K" [] c = "w" -> "W" [] c = "a" -> "A"
      [] c = "m" -> "M" [] c = "v" -> "V" [] c = "i" -> "I" [] c = "b" -> "B"
      [] OTHER -> c

Lower(s) == [i \in 1..Len(s) |-> LowerChar(s[i])]

Upper(s) == [i \in 1..Len(s) |-> UpperChar(s[i])]

\* number of leading characters of s that belong to cs
RECURSIVE LeadIn(_, _)
LeadIn(s, cs) ==
    IF s = <<>> \/ Head(s) \notin cs THEN 0 ELSE 1 + LeadIn(Tail(s), cs)

\* number of trailing characters of s that belong to cs
RECURSIVE TrailIn(_, _)
TrailIn(s, cs) ==
    IF s = <<>> \/ s[Len(s)] \notin cs THEN 0
    ELSE 1 + TrailIn(SubSeq(s, 1, Len(s) - 1), cs)

\* str.strip(chars): drop leading and trailing characters that are in cs
Strip(s, cs) ==
    LET a == LeadIn(s, cs)
    IN  IF a = Len(s) THEN <<>>
        ELSE SubSeq(s, a + 1, Len(s) - TrailIn(s, cs))

(***************************************************************************)
(* decimal.Decimal                                                         *)
(***************************************************************************)
RECURSIVE Pow10(_)
Pow10(n) == IF n <= 0 THEN 1 ELSE 10 * Pow10(n - 1)

\* integer value of a sequence of digit characters ("" is 0)
RECURSIVE DigitsToInt(_)
DigitsToInt(s) ==
    IF s = <<>> THEN 0
    ELSE 10 * DigitsToInt(SubSeq(s, 1, Len(s) - 1)) + DigitVal(s[Len(s)])

\* a Decimal value: sign, coefficient and exponent; ok = FALSE is "no value"
Dec(sign, coef, exp) == [ok |-> TRUE, sign |-> sign, coef |-> coef, exp |-> exp]

NoDec == [ok |-> FALSE, sign |-> 0, coef |-> 0, exp |-> 0]

\* Decimal(str): surrounding whitespace is dropped, then
\* [sign] digits [. digits] with at least one digit; anything else is
\* decimal.InvalidOperation (NoDec here).  Exponent, Inf and NaN forms use
\* letters that are outside the modelled alphabet.
DecimalFromStr(s) ==
    LET t    == Strip(s, {" "})
        sg   == IF t # <<>> /\ Head(t) \in {"-", "+"} THEN 1 ELSE 0
        body == SubSeq(t, sg + 1, Len(t))
        ni   == LeadIn(body, Digits)
        rest == SubSeq(body, ni + 1, Len(body))
        dot  == rest # <<>> /\ Head(rest) = "."
        frac == IF dot THEN Tail(rest) ELSE <<>>
        nf   == LeadIn(frac, Digits)
    IN  IF /\ (dot \/ rest = <<>>)
           /\ nf = Len(frac)
           /\ ni + nf > 0
        THEN Dec(IF sg = 1 /\ Head(t) = "-" THEN 1 ELSE 0,
                 DigitsToInt(SubSeq(body, 1, ni) \o frac),
                 0 - nf)
        ELSE NoDec

\* the signed coefficient of d scaled to exponent e (e <= d.exp)
Scaled(d, e) == (IF d.sign = 1 THEN 0 - d.coef ELSE d.coef) * Pow10(d.exp - e)

\* Decimal.__eq__ / SQL numeric equality: equality of the numeric values,
\* whatever the scale (1.5 = 1.50)
DecEq(a, b) ==
    LET e == IF a.exp < b.exp THEN a.exp ELSE b.exp
    IN  a.ok /\ b.ok /\ Scaled(a, e) = Scaled(b, e)

(***************************************************************************)
(* Decoded JSON values (the result of request.get_json())                  *)
(***************************************************************************)
\* every value has the same shape: its Python type name, its text when it
\* is a str, its number when it is an int or a bool (True = 1)
JStr(s) == [t |-> "str", s |-> s, n |-> 0]

JInt(n) == [t |-> "int", s |-> <<>>, n |-> n]

JBool(b) == [t |-> "bool", s |-> <<>>, n |-> IF b THEN 1 ELSE 0]

JNull == [t |-> "NoneType", s |-> <<>>, n |-> 0]

JList == [t |-> "list", s |-> <<>>, n |-> 0]

JDict == [t |-> "dict", s |-> <<>>, n |-> 0]

\* marks a key that the mapping does not have
JMissing == [t |-> "missing", s |-> <<>>, n |-> 0]

Keys == {"name", "description", "price", "available", "category"}

\* a decoded body: its own type and, when it is a dict, its items
Body(id, name, description, price, available, category) ==
    [t |-> "dict",
     f |-> [id |-> id, name |-> name, description |-> description,
            price |-> price, available |-> available, category |-> category]]

\* a decoded body that is not a mapping (null, a list, a number)
NonDict(t) ==
    [t |-> t,
     f |-> [id |-> JMissing, name |-> JMissing, description |-> JMissing, price |-> JMissing,
            available |-> JMissing, category |-> JMissing]]

\* the mapping d without key k
Without(d, k) == [d EXCEPT !.f[k] = JMissing]

\* the mapping d with d[k] = v
With(d, k, v) == [d EXCEPT !.f[k] = v]

(***************************************************************************)
(* class Category(Enum)                                                    *)
(***************************************************************************)
N_UNKNOWN == <<"U", "N", "K", "N", "O", "W", "N">>

N_CLOTHS == <<"C", "L", "O", "T", "H", "S">>

N_FOOD == <<"F", "O", "O", "D">>

N_HOUSEWARES == <<"H", "O", "U", "S", "E", "W", "A", "R", "E", "S">>

N_AUTOMOTIVE == <<"A", "U", "T", "O", "M", "O", "T", "I", "V", "E">>

N_TOOLS == <<"T", "O", "O", "L", "S">>

Member(name, value) == [kind |-> "member", name |-> name, value |-> value]

Category ==
    { Member(N_UNKNOWN, 0), Member(N_CLOTHS, 1), Member(N_FOOD, 2),
      Member(N_HOUSEWARES, 3), Member(N_AUTOMOTIVE, 4), Member(N_TOOLS, 5) }

CategoryNames == {m.name : m \in Category}

\* names of attributes that the class Category has besides its members
\* (inherited from Enum / type): __members__, __name__, __doc__, mro
A_MEMBERS == <<"_", "_", "m", "e", "m", "b", "e", "r", "s", "_", "_">>

A_NAME == <<"_", "_", "n", "a", "m", "e", "_", "_">>

A_DOC == <<"_", "_", "d", "o", "c", "_", "_">>

A_MRO == <<"m", "r", "o">>

ClassAttrNames == {A_MEMBERS, A_NAME, A_DOC, A_MRO}

\* a category field that holds no value (None)
NoCategory == [kind |-> "None", name |-> <<>>, value |-> 0 - 1]

\* an attribute of the class that is not a member of the enumeration
ClassAttr(name) == [kind |-> "attr", name |-> name, value |-> 0 - 1]

\* getattr(Category, s) for a str s: the member of that name, else the class
\* attribute of that name, else AttributeError (found = FALSE)
GetattrCategory(s) ==
    IF s \in CategoryNames
    THEN [found |-> TRUE, obj |-> CHOOSE m \in Category : m.name = s]
    ELSE IF s \in ClassAttrNames
    THEN [found |-> TRUE, obj |-> ClassAttr(s)]
    ELSE [found |-> FALSE, obj |-> NoCategory]

(***************************************************************************)
(* class Product                                                           *)
(***************************************************************************)
\* Python's None in the id field
Null == 0 - 1

\* Product(): every column attribute is None
NewProduct ==
    [id |-> Null, name |-> JNull, description |-> JNull, price |-> NoDec,
     available |-> JNull, category |-> NoCategory]

\* Decimal(v) for a decoded JSON value v
DecimalOf(v) ==
    CASE v.t = "str"  -> IF DecimalFromStr(v.s).ok
                         THEN [exc |-> "None", d |-> DecimalFromStr(v.s)]
                         ELSE [exc |-> "InvalidOperation", d |-> NoDec]
      [] v.t \in {"int", "bool"} ->
                         [exc |-> "None",
                          d |-> Dec(IF v.n < 0 THEN 1 ELSE 0,
                                    IF v.n < 0 THEN 0 - v.n ELSE v.n, 0)]
      [] v.t = "list" -> [exc |-> "ValueError", d |-> NoDec]
      [] OTHER        -> [exc |-> "TypeError", d |-> NoDec]

\* outcome of a call: the Product instance afterwards, the exception that
\* left the call ("None" when it returned), its message, and the detail the
\* message ends with (a key or type name, or the text of a bad attribute)
Outcome(p, exc, msg, detail, attr) ==
    [product |-> p, exc |-> exc, msg |-> msg, detail |-> detail, attr |-> attr]

Returned(p) == Outcome(p, "None", "", "", <<>>)

MsgAttribute == "Invalid attribute: "

MsgMissing == "Invalid product: missing "

MsgBadData == "Invalid product: body of request contained bad or no data "

MsgBoolean == "Invalid type for boolean [available]: "

MsgEmptyId == "Update called with empty ID field"

\* the three except clauses of deserialize
RaisedKeyError(p, k) == Outcome(p, "DataValidationError", MsgMissing, k, <<>>)

RaisedTypeError(p) == Outcome(p, "DataValidationError", MsgBadData, "", <<>>)

RaisedAttributeError(p, s) ==
    Outcome(p, "DataValidationError", MsgAttribute, "", s)

\* Subscript that does not notice an absent key
SubscriptAnyKey(data, k) == IF data.t # "dict" THEN "TypeError" ELSE "None"

\* data[k]: KeyError when the dict has no k, TypeError when data is no dict
Subscript(data, k) ==
    IF data.t # "dict" THEN "TypeError"
    ELSE IF data.f[k].t = "missing" THEN "KeyError"
    ELSE "None"

\* self.category = getattr(Category, data["category"])
SetCategory(p, data) ==
    LET v == data.f["category"]
        g == GetattrCategory(v.s)
    IN  IF Subscript(data, "category") = "KeyError"
        THEN RaisedKeyError(p, "category")
        ELSE IF v.t # "str" THEN RaisedTypeError(p)
        ELSE IF ~g.found THEN RaisedAttributeError(p, v.s)
        ELSE Returned([p EXCEPT !.category = g.obj])

\* SetAvailable without the isinstance check: any value is stored
SetAvailableUnchecked(p, data) ==
    IF Subscript(data, "available") = "KeyError"
    THEN RaisedKeyError(p, "available")
    ELSE SetCategory([p EXCEPT !.available = data.f["available"]], data)

\* if isinstance(data["available"], bool): ... else: raise ...
SetAvailable(p, data) ==
    LET v == data.f["available"]
    IN  IF Subscript(data, "available") = "KeyError"
        THEN RaisedKeyError(p, "available")
        ELSE IF v.t = "bool"
        THEN SetCategory([p EXCEPT !.available = v], data)
        ELSE Outcome(p, "DataValidationError", MsgBoolean, v.t, <<>>)

\* self.price = Decimal(data["price"])
SetPrice(p, data) ==
    LET r == DecimalOf(data.f["price"])
    IN  IF Subscript(data, "price") = "KeyError"
        THEN RaisedKeyError(p, "price")
        ELSE IF r.exc = "TypeError" THEN RaisedTypeError(p)
        ELSE IF r.exc # "None" THEN Outcome(p, r.exc, "", "", <<>>)
        ELSE SetAvailable([p EXCEPT !.price = r.d], data)

\* self.description = data["description"]
SetDescription(p, data) ==
    IF Subscript(data, "description") = "KeyError"
    THEN RaisedKeyError(p, "description")
    ELSE SetPrice([p EXCEPT !.description = data.f["description"]], data)

\* deserialize that looks for the key "category" before it reads "name"
deserializeCategoryFirst(p, data) ==
    IF Subscript(data, "name") = "TypeError" THEN RaisedTypeError(p)
    ELSE IF Subscript(data, "category") = "KeyError"
    THEN RaisedKeyError(p, "category")
    ELSE IF Subscript(data, "name") = "KeyError" THEN RaisedKeyError(p, "name")
    ELSE SetDescription([p EXCEPT !.name = data.f["name"]], data)

\* Product.deserialize(self, data): the assignments in order, each on the
\* instance the previous ones left
deserialize(p, data) ==
    IF Subscript(data, "name") = "TypeError" THEN RaisedTypeError(p)
    ELSE IF Subscript(data, "name") = "KeyError" THEN RaisedKeyError(p, "name")
    ELSE SetDescription([p EXCEPT !.name = data.f["name"]], data)

\* decimal digits of a natural number
RECURSIVE IntToDigits(_)
IntToDigits(n) ==
    IF n < 10 THEN <<DigitChars[n + 1]>>
    ELSE IntToDigits(n \div 10) \o <<DigitChars[(n % 10) + 1]>>

Zeros(k) == [i \in 1..k |-> "0"]

\* Decimal.__str__: plain notation when the exponent is <= 0 and the value
\* is not too small, scientific notation otherwise
DecToStr(d) ==
    LET int        == IntToDigits(d.coef)
        leftdigits == d.exp + Len(int)
        dotplace   == IF d.exp <= 0 /\ leftdigits > 0 - 6 THEN leftdigits ELSE 1
        intpart    == IF dotplace <= 0 THEN <<"0">>
                      ELSE IF dotplace >= Len(int)
                      THEN int \o Zeros(dotplace - Len(int))
                      ELSE SubSeq(int, 1, dotplace)
        fracpart   == IF dotplace <= 0 THEN <<".">> \o Zeros(0 - dotplace) \o int
                      ELSE IF dotplace >= Len(int) THEN <<>>
                      ELSE <<".">> \o SubSeq(int, dotplace + 1, Len(int))
        e          == leftdigits - dotplace
        exp        == IF e = 0 THEN <<>>
                      ELSE <<"E", IF e < 0 THEN "-" ELSE "+">>
                           \o IntToDigits(IF e < 0 THEN 0 - e ELSE e)
    IN  (IF d.sign = 1 THEN <<"-">> ELSE <<>>) \o intpart \o fracpart \o exp

\* Product.serialize(self): the price as str(Decimal), the category as the
\* name of the enumeration member
serialize(p) ==
    [id |-> p.id, name |-> p.name, description |-> p.description,
     price |-> DecToStr(p.price), available |-> p.available,
     category |-> p.category.name]

(***************************************************************************)
(* The store: the product table behind db.session                          *)
(***************************************************************************)
\* db.String(100) and db.String(250)
NameLength == 100

DescriptionLength == 250

\* why the table refuses a row: "None" when it accepts it, "bind" when the
\* Enum column cannot convert the category (before any statement is sent),
\* "database" when a NOT NULL or length constraint of the table fails
RowError(p) ==
    IF p.category.kind # "member" THEN "bind"
    ELSE IF \/ p.name.t # "str" \/ Len(p.name.s) > NameLength
            \/ p.description.t # "str" \/ Len(p.description.s) > DescriptionLength
            \/ ~p.price.ok
            \/ p.available.t # "bool"
    THEN "database"
    ELSE "None"

Ids(st) == {p.id : p \in st}

\* a table that gives the next row the smallest key no row has
NextKeyReused(st, sq) ==
    CHOOSE i \in 1..(sq + 1) :
        i \notin Ids(st) /\ \A j \in 1..(i - 1) : j \in Ids(st)

\* the primary key the table's sequence gives to the next inserted row
NextKey(st, sq) == sq + 1

\* create that keeps the id the instance already has
CreatedIdKept(p, st, sq) == IF p.id # Null THEN p.id ELSE NextKey(st, sq)

\* Product.create(self): the id the instance gets.  self.id = None, so the
\* key comes from the table's sequence
CreatedId(p, st, sq) == NextKey(st, sq)

\* Product.create(self): the instance and the table afterwards
create(p, st, sq) ==
    LET q == [p EXCEPT !.id = CreatedId(p, st, sq)]
    IN  IF RowError(p) # "None"
        THEN [out |-> Outcome([p EXCEPT !.id = Null], "StorageError", "", "", <<>>),
              store |-> st]
        ELSE [out |-> Returned(q), store |-> st \cup {q}]

\* update that inserts the instance and leaves the row it was loaded from
updateInserted(p, orig, st) ==
    IF p.id = Null \/ p.id = 0
    THEN [out |-> Outcome(p, "DataValidationError", MsgEmptyId, "", <<>>),
          store |-> st]
    ELSE [out |-> Returned(p), store |-> st \cup {p}]

\* update without the check of the id
updateUnguarded(p, orig, st) ==
    IF orig = Null THEN [out |-> Returned(p), store |-> st]
    ELSE [out |-> Returned(p), store |-> {r \in st : r.id # orig} \cup {p}]

\* Product.update(self) on an instance loaded from row `orig` of the table
\* (orig = Null: an instance that was never added to the session)
update(p, orig, st) ==
    IF p.id = Null \/ p.id = 0
    THEN [out |-> Outcome(p, "DataValidationError", MsgEmptyId, "", <<>>),
          store |-> st]
    ELSE IF orig = Null THEN [out |-> Returned(p), store |-> st]
    ELSE IF RowError(p) # "None"
    THEN [out |-> Outcome(p, "StorageError", "", "", <<>>), store |-> st]
    ELSE [out |-> Returned(p),
          store |-> {r \in st : r.id # orig} \cup {p}]

\* Product.delete(self)
delete(p, st) == {r \in st : r.id # p.id}

\* Product.find(product_id): the rows with that primary key (none or one)
find(st, product_id) == {r \in st : r.id = product_id}

\* Product.all()
all(st) == st

\* a name filter that ignores case
find_by_name_caseless(st, name) ==
    {r \in st : r.name.t = "str" /\ Lower(r.name.s) = Lower(name)}

\* Product.find_by_name(name)
find_by_name(st, name) == {r \in st : r.name.t = "str" /\ r.name.s = name}

\* Product.find_by_availability(available)
find_by_availability(st, available) ==
    {r \in st : r.available.t = "bool" /\ (r.available.n = 1) = available}

\* Product.find_by_category(category)
find_by_category(st, category) == {r \in st : r.category = category}

\* Product.find_by_price(price): price is a Decimal (t = "Decimal", in d) or
\* a str (t = "str", in s); a str is stripped of spaces and double quotes
\* and parsed
PriceValue(price) ==
    IF price.t = "str" THEN DecimalFromStr(Strip(price.s, {" ", "\""}))
    ELSE price.d

find_by_price(st, price) == {r \in st : DecEq(r.price, PriceValue(price))}

\* the rows of a query result in the order the handlers iterate them
RECURSIVE Rows(_)
Rows(q) ==
    IF q = {} THEN <<>>
    ELSE LET r == CHOOSE x \in q : \A y \in q : x.id <= y.id
         IN  <<r>> \o Rows(q \ {r})

\* [p.serialize() for p in products]
Serialized(q) == [i \in 1..Len(Rows(q)) |-> serialize(Rows(q)[i])]

(***************************************************************************)
(* Inputs of the model                                                     *)
(***************************************************************************)
T_a == <<"a">>

T_b == <<"b">>

T_d == <<"d">>

P_1_5 == <<"1", ".", "5">>

P_1_50 == <<"1", ".", "5", "0">>

P_2 == <<"2">>

T_true == <<"t", "r", "u", "e">>

T_yes == <<"y", "e", "s">>

T_SPACESHIP == <<"S", "P", "A", "C", "E", "S", "H", "I", "P">>

\* bodies that deserialize accepts and the table stores
V1 == Body(JMissing, JStr(T_a), JStr(T_d), JStr(P_1_5), JBool(TRUE), JStr(N_FOOD))

V2 == Body(JMissing, JStr(T_a), JStr(T_d), JStr(P_2), JBool(FALSE), JStr(N_CLOTHS))

V3 == Body(JInt(1), JStr(T_b), JStr(T_d), JStr(P_1_50), JBool(FALSE), JStr(N_FOOD))

V4 == Body(JInt(2), JStr(T_b), JStr(T_d), JInt(2), JBool(TRUE), JStr(N_CLOTHS))

ValidBodies == {V1, V2, V3, V4}

\* values of "available" that are not booleans
NonBooleans == {JStr(T_true), JStr(T_yes), JInt(0), JInt(1), JNull}

\* values of "category": the member names, names that differ from them in
\* case or spelling, names of other attributes of the class, non-strings
CategoryValues ==
    {JStr(n) : n \in CategoryNames}
      \cup {JStr(T_SPACESHIP), JStr(Lower(N_FOOD)), JStr(<<>>),
            JStr(<<" ">> \o N_FOOD)}
      \cup {JStr(n) : n \in ClassAttrNames}
      \cup {JInt(2), JNull}

\* values of "price": numeric text, text that is no number, other types
PriceValues ==
    { JStr(P_1_5), JStr(<<" ">> \o P_2 \o <<" ">>), JStr(<<"-", ".", "5">>),
      JStr(<<"1", ".">>), JStr(<<"x">>), JStr(<<>>), JStr(<<".">>),
      JStr(<<"1", ".", "5", ".", "0">>), JStr(<<"\"", "2", "\"">>),
      JInt(2), JBool(TRUE), JNull, JList, JDict }

\* v with one key removed or one value replaced
OneOff(v) ==
    {Without(v, k) : k \in Keys}
      \cup {With(v, "available", x) : x \in NonBooleans}
      \cup {With(v, "category", x) : x \in CategoryValues}
      \cup {With(v, "price", x) : x \in PriceValues}

\* decoded bodies that are no mapping
NonDicts == {NonDict("NoneType"), NonDict("list"), NonDict("int")}

\* ways for the value of the key k to be absent or unusable
Faults(k) ==
    CASE k = "price"     -> {JMissing, JStr(<<"x">>), JNull, JList}
      [] k = "available" -> {JMissing, JStr(T_yes), JNull}
      [] k = "category"  -> {JMissing, JStr(T_SPACESHIP), JInt(2), JStr(A_MRO)}
      [] OTHER           -> {JMissing}

\* v with two keys removed or replaced
TwoOff(v) ==
    UNION { { With(With(v, k1, x1), k2, x2) :
                x1 \in Faults(k1), x2 \in Faults(k2) } :
            k1 \in Keys, k2 \in Keys }

\* the inputs of Product.deserialize
Datas ==
    ValidBodies \cup OneOff(V1) \cup OneOff(V2) \cup TwoOff(V1) \cup NonDicts

\* the bodies of POST and PUT requests: the valid ones and one of each way
\* of being invalid
RequestBodies ==
    ValidBodies
      \cup {Without(V1, k) : k \in Keys}
      \cup { With(V1, "available", JStr(T_yes)),
             With(V1, "category", JStr(T_SPACESHIP)),
             With(V1, "category", JStr(A_MEMBERS)),
             With(V2, "price", JStr(<<"x">>)),
             With(V2, "name", JNull),
             With(V1, "name", JStr(<<>>)),
             NonDict("NoneType") }

ContentTypes == {"application/json", "text/plain", "none"}

\* product ids in request paths; 0 is never a primary key
RequestIds == 0..MaxId

NameTexts == {T_a, T_b, <<"A">>, <<"c">>}

CategoryTexts ==
    { N_FOOD, Lower(N_FOOD), <<"F", "o", "o", "d">>, Lower(N_CLOTHS),
      N_UNKNOWN, Lower(N_TOOLS), T_SPACESHIP, A_MEMBERS, A_MRO }

AvailabilityTexts ==
    { T_true, Upper(T_true), <<"T", "r", "u", "e">>, T_yes, Upper(T_yes),
      <<"1">>, <<"f", "a", "l", "s", "e">>, <<"n", "o">>, <<"0">>, <<"t">>,
      <<"o", "n">>, <<" ", "1">> }

PriceTexts ==
    { P_1_5, P_1_50, P_2, <<"\"">> \o P_1_5 \o <<"\"">>,
      <<" ">> \o P_2 \o <<" ">>, <<" ", "\"", " ">> \o P_1_50 \o <<"\"">>,
      <<"2", ".", "0">>, <<"9">>, <<"1", "\"", ".", "5">>, <<"x">>, <<>> }

StrPrice(s) == [t |-> "str", s |-> s, d |-> NoDec]

DecimalPrice(d) == [t |-> "Decimal", s |-> <<>>, d |-> d]

\* arguments of Product.find_by_price: text, and Decimal values
PriceArgs ==
    {StrPrice(s) : s \in PriceTexts}
      \cup {DecimalPrice(d) : d \in {Dec(0, 15, 0 - 1), Dec(0, 150, 0 - 2),
                                     Dec(0, 2, 0), Dec(0, 20, 0 - 1),
                                     Dec(0, 9, 0)}}

(***************************************************************************)
(* State                                                                   *)
(***************************************************************************)
VARIABLES
    store,      \* the rows of the product table
    seq,        \* the last value of the table's primary-key sequence
    deleted,    \* the ids of the rows that DELETE requests have removed
    req,        \* the last request or call
    resp        \* its response or outcome

vars == <<store, seq, deleted, req, resp>>

NoReq ==
    [op |-> "", ct |-> "", id |-> Null, data |-> NonDict("NoneType"),
     text |-> <<>>, product |-> NewProduct, cat |-> NoCategory,
     flag |-> FALSE, price |-> StrPrice(<<>>)]

\* status 0: a call of the model layer, which has no HTTP status
Resp(status, out, items) == [status |-> status, out |-> out, items |-> items]

\* the status the error handlers give to an exception that leaves a handler
StatusOf(exc) == IF exc = "DataValidationError" THEN 400 ELSE 500

\* check_content_type("application/json")
check_content_type(ct) == ct = "application/json"

Init ==
    /\ store = {}
    /\ seq = 0
    /\ deleted = {}
    /\ req = NoReq
    /\ resp = Resp(0, Returned(NewProduct), <<>>)

(***************************************************************************)
(* The HTTP handlers (service/routes.py)                                   *)
(***************************************************************************)
\* POST /products
create_products(ct, data) ==
    \E d \in {deserialize(NewProduct, data)} :
    \E c \in {create(d.product, store, seq)} :
        /\ req' = [NoReq EXCEPT !.op = "POST", !.ct = ct, !.data = data]
        /\ UNCHANGED deleted
        /\ IF ~check_content_type(ct)
           THEN /\ resp' = Resp(415, Returned(NewProduct), <<>>)
                /\ UNCHANGED <<store, seq>>
           ELSE IF d.exc # "None"
           THEN /\ resp' = Resp(StatusOf(d.exc), d, <<>>)
                /\ UNCHANGED <<store, seq>>
           ELSE IF c.out.exc # "None"
           THEN /\ resp' = Resp(StatusOf(c.out.exc), c.out, <<>>)
                /\ store' = c.store
                /\ \E used \in (IF RowError(d.product) = "database"
                                THEN {0, 1} ELSE {0}) :
                       /\ seq + used <= MaxId
                       /\ seq' = seq + used
           ELSE /\ seq < MaxId
                /\ resp' = Resp(201, c.out, <<serialize(c.out.product)>>)
                /\ store' = c.store
                /\ seq' = seq + 1

\* GET /products (a price query parameter, when given, is in `text`)
list_all_products(text) ==
    /\ req' = [NoReq EXCEPT !.op = "GET /products", !.text = text]
    /\ resp' = Resp(200, Returned(NewProduct), Serialized(all(store)))
    /\ UNCHANGED <<store, seq, deleted>>

\* GET /products/name/<name>
list_products_by_name(name) ==
    /\ req' = [NoReq EXCEPT !.op = "GET name", !.text = name]
    /\ resp' = Resp(200, Returned(NewProduct),
                    Serialized(find_by_name(store, name)))
    /\ UNCHANGED <<store, seq, deleted>>

\* GET /products/category/<cat>
list_products_by_category(cat) ==
    LET g == GetattrCategory(Upper(cat))
    IN  /\ req' = [NoReq EXCEPT !.op = "GET category", !.text = cat,
                                !.cat = g.obj]
        /\ resp' = IF g.found
                   THEN Resp(200, Returned(NewProduct),
                             Serialized(find_by_category(store, g.obj)))
                   ELSE Resp(400, Returned(NewProduct), <<>>)
        /\ UNCHANGED <<store, seq, deleted>>

\* the coercion without lower()
available_value_exact(avail) == avail \in {T_true, T_yes, <<"1">>}

\* available_value = avail.lower() in ["true", "yes", "1"]
available_value(avail) == Lower(avail) \in {T_true, T_yes, <<"1">>}

\* GET /products/availability/<avail>
list_products_by_availability(avail) ==
    /\ req' = [NoReq EXCEPT !.op = "GET availability", !.text = avail,
                            !.flag = available_value(avail)]
    /\ resp' = Resp(200, Returned(NewProduct),
                    Serialized(find_by_availability(store, available_value(avail))))
    /\ UNCHANGED <<store, seq, deleted>>

\* GET /products/<product_id>
get_product(product_id) ==
    LET found == find(store, product_id)
    IN  /\ req' = [NoReq EXCEPT !.op = "GET", !.id = product_id]
        /\ resp' = IF found = {}
                   THEN Resp(404, Returned(NewProduct), <<>>)
                   ELSE Resp(200, Returned(NewProduct), Serialized(found))
        /\ UNCHANGED <<store, seq, deleted>>

\* PUT /products/<product_id>
update_product(product_id, ct, data) ==
    \E found \in {find(store, product_id)} :
    \E d \in {IF found = {} THEN Returned(NewProduct)
              ELSE deserialize(CHOOSE r \in found : TRUE, data)} :
    \E u \in {update([d.product EXCEPT !.id = product_id], product_id, store)} :
        /\ req' = [NoReq EXCEPT !.op = "PUT", !.id = product_id, !.ct = ct,
                                !.data = data]
        /\ UNCHANGED <<seq, deleted>>
        /\ IF ~check_content_type(ct)
           THEN /\ resp' = Resp(415, Returned(NewProduct), <<>>)
                /\ UNCHANGED store
           ELSE IF found = {}
           THEN /\ resp' = Resp(404, Returned(NewProduct), <<>>)
                /\ UNCHANGED store
           ELSE IF d.exc # "None"
           THEN /\ resp' = Resp(StatusOf(d.exc), d, <<>>)
                /\ UNCHANGED store
           ELSE IF u.out.exc # "None"
           THEN /\ resp' = Resp(StatusOf(u.out.exc), u.out, <<>>)
                /\ store' = u.store
           ELSE /\ resp' = Resp(200, u.out, <<serialize(u.out.product)>>)
                /\ store' = u.store

\* DELETE /products/<product_id>
delete_product(product_id) ==
    LET found == find(store, product_id)
    IN  /\ req' = [NoReq EXCEPT !.op = "DELETE", !.id = product_id]
        /\ resp' = Resp(204, Returned(NewProduct), <<>>)
        /\ store' = IF found = {} THEN store
                    ELSE delete(CHOOSE r \in found : TRUE, store)
        /\ deleted' = IF found = {} THEN deleted ELSE deleted \cup {product_id}
        /\ UNCHANGED seq

(***************************************************************************)
(* Calls of the model layer (service/models.py) outside a handler          *)
(***************************************************************************)
\* the instance that deserialize builds from a valid body, with its id set
Instance(base, body, id) == [deserialize(base, body).product EXCEPT !.id = id]

\* product.create() on an instance whose id attribute already has a value
ProductCreate(body, id) ==
    \E p \in {Instance(NewProduct, body, id)} :
    \E c \in {create(p, store, seq)} :
        /\ seq < MaxId
        /\ req' = [NoReq EXCEPT !.op = "Product.create", !.product = p]
        /\ resp' = Resp(0, c.out, <<>>)
        /\ store' = c.store
        /\ seq' = seq + 1
        /\ UNCHANGED deleted

\* product.update() on an instance that was loaded from row `orig` and then
\* modified (orig = Null: an instance that was never stored)
ProductUpdate(orig, body, id) ==
    \E base \in {IF orig = Null THEN NewProduct
                 ELSE CHOOSE r \in store : r.id = orig} :
    \E p \in {Instance(base, body, id)} :
    \E u \in {update(p, orig, store)} :
        /\ req' = [NoReq EXCEPT !.op = "Product.update", !.id = orig,
                                !.product = p]
        /\ resp' = Resp(0, u.out, <<>>)
        /\ store' = u.store
        /\ UNCHANGED <<seq, deleted>>

\* product.deserialize(data) on the instance of the last call
Deserialize(data) ==
    \E d \in {deserialize(req.product, data)} :
        /\ req' = [NoReq EXCEPT !.op = "Product.deserialize", !.data = data,
                                !.product = req.product]
        /\ resp' = Resp(0, d, <<>>)
        /\ UNCHANGED <<store, seq, deleted>>

\* Product.serialize(self) raises AttributeError at self.category.name when
\* the category is not a member of Category
serialize_exc(p) ==
    IF p.category.kind = "member" THEN "None" ELSE "AttributeError"

\* the dictionary that serialize returns, as an input of deserialize
DataOf(s) ==
    Body(IF s.id = Null THEN JNull ELSE JInt(s.id), s.name, s.description,
         JStr(s.price), s.available, JStr(s.category))

\* Product().deserialize(product.serialize()) for the product that the last
\* call of deserialize returned; req keeps the inputs of that call
RoundTrip ==
    /\ req.op = "Product.deserialize"
    /\ resp.out.exc = "None"
    /\ \E p \in {resp.out.product} :
       \E e \in {serialize_exc(p)} :
       \E d \in {IF e = "None"
                 THEN deserialize(NewProduct, DataOf(serialize(p)))
                 ELSE Outcome(NewProduct, e, "", "", <<>>)} :
          /\ req' = [req EXCEPT !.op = "Product.serialize"]
          /\ resp' = Resp(0, d, IF e = "None" THEN <<serialize(p)>> ELSE <<>>)
    /\ UNCHANGED <<store, seq, deleted>>

\* find_by_price raises decimal.InvalidOperation when the text is no number
find_by_price_exc(price) ==
    IF price.t = "str" /\ ~PriceValue(price).ok THEN "InvalidOperation"
    ELSE "None"

\* Product.find_by_price(price) and the iteration of its result
FindByPrice(price) ==
    /\ req' = [NoReq EXCEPT !.op = "Product.find_by_price", !.price = price,
                            !.product = req.product]
    /\ resp' = IF find_by_price_exc(price) # "None"
               THEN Resp(0, Outcome(NewProduct, find_by_price_exc(price),
                                    "", "", <<>>), <<>>)
               ELSE Resp(0, Returned(NewProduct),
                         Serialized(find_by_price(store, price)))
    /\ UNCHANGED <<store, seq, deleted>>

(***************************************************************************)
(* Specifications                                                          *)
(***************************************************************************)
\* bodies of PUT requests
UpdateBodies ==
    ValidBodies
      \cup { Without(V1, "price"), With(V1, "available", JStr(T_yes)),
             With(V2, "category", JStr(T_SPACESHIP)),
             With(V2, "category", JStr(A_MEMBERS)) }

\* price query parameters of GET /products
QueryPrices == {P_1_5, P_2, <<"9">>}

\* the service: any sequence of requests and model-layer calls
Next ==
    \/ \E ct \in ContentTypes :
         \E data \in (IF check_content_type(ct) THEN RequestBodies
                      ELSE {NonDict("NoneType")}) :
            create_products(ct, data)
    \/ \E text \in QueryPrices : list_all_products(text)
    \/ \E name \in NameTexts : list_products_by_name(name)
    \/ \E cat \in CategoryTexts : list_products_by_category(cat)
    \/ \E avail \in AvailabilityTexts : list_products_by_availability(avail)
    \/ \E id \in RequestIds : get_product(id)
    \/ \E id \in RequestIds, ct \in {"application/json", "text/plain"} :
         \E data \in (IF check_content_type(ct) THEN UpdateBodies
                      ELSE {NonDict("NoneType")}) :
            update_product(id, ct, data)
    \/ \E id \in RequestIds : delete_product(id)
    \/ \E body \in {V1, V4}, id \in {Null} \cup (1..MaxId) :
         ProductCreate(body, id)
    \/ \E orig \in {Null} \cup Ids(store), body \in {V2, V3} :
         \E id \in {Null, 0} \cup (IF orig = Null THEN {1} ELSE {orig}) :
            ProductUpdate(orig, body, id)

Spec == Init /\ [][Next]_vars

\* the model layer's pure operations, applied to every input: the target
\* instance is a new Product or one that an earlier deserialize filled, and
\* the table holds rows that POST requests with valid bodies have stored
Stored(body, id) == Instance(NewProduct, body, id)

InitModel ==
    /\ \E bodies \in {<<>>, <<V1>>, <<V1, V2>>, <<V3, V1>>, <<V2, V3, V4>>,
                      <<V4, V4, V1>>} :
          /\ store = {Stored(bodies[i], i) : i \in 1..Len(bodies)}
          /\ seq = Len(bodies)
    /\ deleted = {}
    /\ \E target \in {NewProduct, Instance(NewProduct, V3, Null)} :
          req = [NoReq EXCEPT !.product = target]
    /\ resp = Resp(0, Returned(NewProduct), <<>>)

NextModel ==
    \/ \E data \in Datas : Deserialize(data)
    \/ \E price \in PriceArgs : FindByPrice(price)
    \/ RoundTrip

SpecModel == InitModel /\ [][NextModel]_vars

(***************************************************************************)
(* Properties                                                              *)
(***************************************************************************)
\* data is a mapping that agrees with a valid body on every required key
\* other than k
OtherwiseValid(data, k) ==
    /\ data.t = "dict"
    /\ \E v \in ValidBodies : \A key \in Keys \ {k} : data.f[key] = v.f[key]

\* the last call was Product.deserialize
Deserialized == req.op = "Product.deserialize"

\* C1: for every string s, deserialize of an otherwise valid mapping with
\* category = s succeeds and stores the member named s if and only if s is
\* the name of a Category member; for every other string it fails with the
\* "Invalid attribute" validation error.
C1_UnknownCategoryRejected ==
    (/\ Deserialized
     /\ OtherwiseValid(req.data, "category")
     /\ req.data.f["category"].t = "str")
    => LET s == req.data.f["category"].s
       IN  IF s \in CategoryNames
           THEN /\ resp.out.exc = "None"
                /\ resp.out.product.category \in Category
                /\ resp.out.product.category.name = s
           ELSE /\ resp.out.exc = "DataValidationError"
                /\ resp.out.msg = MsgAttribute

\* C2: every failure of deserialize is a DataValidationError, and a price
\* that does not parse is reported as the "bad or no data" validation error.
C2_EveryFailureIsValidationError ==
    Deserialized
    => /\ resp.out.exc \in {"None", "DataValidationError"}
       /\ (/\ OtherwiseValid(req.data, "price")
           /\ req.data.f["price"].t = "str"
           /\ ~DecimalFromStr(req.data.f["price"].s).ok)
          => resp.out.msg = MsgBadData

\* C3: deserialize of a mapping whose other fields are valid succeeds if and
\* only if the value of "available" is a boolean; every other value fails
\* with the "Invalid type for boolean [available]" validation error, which
\* names the type of the value.
C3_BooleanStrictness ==
    (/\ Deserialized
     /\ OtherwiseValid(req.data, "available")
     /\ req.data.f["available"].t # "missing")
    => LET v == req.data.f["available"]
       IN  /\ (resp.out.exc = "None") <=> (v.t = "bool")
           /\ v.t = "bool" => resp.out.product.available = v
           /\ v.t # "bool"
              => /\ resp.out.exc = "DataValidationError"
                 /\ resp.out.msg = MsgBoolean
                 /\ resp.out.detail = v.t

\* a non-boolean "available" in an otherwise valid mapping was rejected
C3_Witness ==
    /\ Deserialized
    /\ OtherwiseValid(req.data, "available")
    /\ req.data.f["available"] = JStr(T_yes)
    /\ resp.out.msg = MsgBoolean
    /\ resp.out.detail = "str"

\* the last request was a POST whose JSON body is V1 without key k
PostLacking(r, k) ==
    /\ r.op = "POST"
    /\ check_content_type(r.ct)
    /\ r.data = Without(V1, k)

\* C4: for each required key k, deserialize of an otherwise valid mapping
\* that lacks k fails with the "Invalid product: missing" validation error
\* naming k; POST /products with that body is answered 400 and leaves the
\* store as it was.
C4_MissingField ==
    [][\A k \in Keys :
          PostLacking(req', k)
          => /\ resp'.out.exc = "DataValidationError"
             /\ resp'.out.msg = MsgMissing
             /\ resp'.out.detail = k
             /\ resp'.status = 400
             /\ store' = store]_vars

\* a POST without "category" was rejected while the store held products
C4_Witness ==
    /\ PostLacking(req, "category")
    /\ resp.status = 400
    /\ resp.out.detail = "category"
    /\ store # {}

\* C5: once DELETE /products/X has removed a stored product, no product has
\* id X again and every GET /products/X is answered 404.
C5_FetchAfterDelete ==
    /\ \A x \in deleted : find(store, x) = {}
    /\ (req.op = "GET" /\ req.id \in deleted) => resp.status = 404

\* a GET of a deleted id was answered 404 after a later product was created
C5_Witness ==
    /\ req.op = "GET"
    /\ req.id \in deleted
    /\ resp.status = 404
    /\ \E r \in store : r.id > req.id

\* the create that the last request or call made has succeeded
Created ==
    /\ req.op \in {"POST", "Product.create"}
    /\ resp.out.exc = "None"
    /\ resp.status \in {0, 201}

\* C6: create stores the product under the id the store assigns, whatever
\* id the instance or the body carried; no two stored products share an id
\* and no stored product has a null id.
C6_ServerAssignedUniqueId ==
    /\ \A p \in store : \A q \in store : p.id = q.id => p = q
    /\ \A p \in store : p.id # Null
    /\ Created => /\ resp.out.product.id = seq
                  /\ resp.out.product \in store

\* a create on an instance that carried the id of a stored product
C6_Witness ==
    /\ Created
    /\ req.op = "Product.create"
    /\ req.product.id # Null
    /\ req.product.id # resp.out.product.id
    /\ req.product.id \in Ids(store)
    /\ Cardinality(store) >= 2

\* C7: Product.update on a product whose id is unset raises the validation
\* error "Update called with empty ID field" and leaves the store as it was.
C7_UpdatePrecondition ==
    [][(req'.op = "Product.update" /\ req'.product.id = Null)
       => /\ resp'.out.exc = "DataValidationError"
          /\ resp'.out.msg = MsgEmptyId
          /\ store' = store]_vars

\* update was refused on an instance that was loaded from a stored row,
\* given new field values and then an unset id
C7_Witness ==
    /\ req.op = "Product.update"
    /\ req.product.id = Null
    /\ req.id \in Ids(store)
    /\ \A r \in store : r.name # req.product.name
    /\ resp.out.msg = MsgEmptyId

\* items lists the serialized form of every product of q once, and nothing
\* else
Exactly(items, q) ==
    /\ Len(items) = Cardinality(q)
    /\ {items[i] : i \in 1..Len(items)} = {serialize(r) : r \in q}

\* C8: GET /products?price=V returns exactly the stored products whose price
\* equals the decimal V.
C8_PriceQuery ==
    req.op = "GET /products"
    => /\ resp.status = 200
       /\ Exactly(resp.items,
                  {r \in store : DecEq(r.price, DecimalFromStr(req.text))})

\* C9: each of find_by_name(v), find_by_category(v) and
\* find_by_availability(v) returns exactly the stored products whose field
\* equals v (req.text, req.cat and req.flag are the v the handler passed).
C9_FilterExactness ==
    /\ req.op = "GET name"
       => Exactly(resp.items, {r \in store : r.name = JStr(req.text)})
    /\ (req.op = "GET category" /\ resp.status = 200)
       => /\ req.cat \in Category
          /\ Exactly(resp.items, {r \in store : r.category = req.cat})
    /\ req.op = "GET availability"
       => Exactly(resp.items, {r \in store : r.available = JBool(req.flag)})

\* a query for UNKNOWN returned nothing while every stored product is
\* CLOTHS, after a name query could return one of two stored products
C9_Witness ==
    /\ req.op = "GET category"
    /\ req.cat = Member(N_UNKNOWN, 0)
    /\ resp.status = 200
    /\ resp.items = <<>>
    /\ Cardinality(store) = 2
    /\ \A r \in store : r.category = Member(N_CLOTHS, 1)
    /\ Cardinality(find_by_name(store, T_a)) = 1

\* the products GET /products/availability/<s> must return when s stands
\* for `flag`
AvailabilityAnswer(flag) ==
    /\ resp.status = 200
    /\ Exactly(resp.items, {r \in store : r.available = JBool(flag)})

\* C10 as claimed: the filter is on available = true exactly when s is one
\* of "true", "yes", "1", and on available = false for every other s.
C10_AvailabilityCoercion_Claimed ==
    req.op = "GET availability"
    => AvailabilityAnswer(req.text \in {T_true, T_yes, <<"1">>})

\* C10 amended: the filter is on available = true exactly when s in lower
\* case is one of "true", "yes", "1", and on available = false otherwise.
C10_AvailabilityCoercion ==
    req.op = "GET availability"
    => AvailabilityAnswer(Lower(req.text) \in {T_true, T_yes, <<"1">>})

\* "TRUE" selected the available product and left the other one out
C10_Witness ==
    /\ req.op = "GET availability"
    /\ req.text = Upper(T_true)
    /\ Len(resp.items) = 1
    /\ resp.items[1].available = JBool(TRUE)
    /\ Cardinality(store) = 2

\* the last request was a PUT with a JSON body
Put(r) == r.op = "PUT" /\ check_content_type(r.ct)

\* row has the five fields of the body b
HasFieldsOf(row, b) ==
    /\ row.name = b.f["name"]
    /\ row.description = b.f["description"]
    /\ row.price = DecimalOf(b.f["price"]).d
    /\ row.available = b.f["available"]
    /\ row.category \in Category
    /\ row.category.name = b.f["category"].s

C12_StoredWellFormed ==
    \A r \in store :
        /\ r.name.t = "str"
        /\ Len(r.name.s) >= 1
        /\ Len(r.name.s) <= NameLength
        /\ r.description.t = "str"
        /\ Len(r.description.s) <= DescriptionLength
        /\ r.available.t = "bool"
        /\ r.category \in Category

\* C13: for every product P built by a successful deserialize,
\* deserialize(serialize(P)) succeeds and yields a product equal to P in
\* name, description, price, available and category; serialize carries the
\* price as its decimal string and the category as its symbolic name.
C13_RoundTrip ==
    req.op = "Product.serialize"
    => LET P == deserialize(req.product, req.data).product
       IN  /\ resp.out.exc = "None"
           /\ resp.out.product.name = P.name
           /\ resp.out.product.description = P.description
           /\ resp.out.product.price = P.price
           /\ resp.out.product.available = P.available
           /\ resp.out.product.category = P.category
           /\ Len(resp.items) = 1
           /\ resp.items[1].price = DecToStr(P.price)
           /\ req.data.f["price"].s \in {P_1_5, P_1_50, P_2}
                => resp.items[1].price = req.data.f["price"].s
           /\ resp.items[1].category \in CategoryNames
           /\ resp.items[1].category = P.category.name

\* C14: when Product.deserialize raises, every field of the target product
\* (name, description, price, available, category) holds the value it had
\* before the call.
C14_NoSideEffectOnFailure ==
    (Deserialized /\ resp.out.exc # "None")
    => /\ resp.out.product.name = req.product.name
       /\ resp.out.product.description = req.product.description
       /\ resp.out.product.price = req.product.price
       /\ resp.out.product.available = req.product.available
       /\ resp.out.product.category = req.product.category

\* the order in which deserialize is said to look at the fields
FieldOrder == <<"name", "description", "price", "available", "category">>

\* the field k of the mapping data is missing, mistyped or names no member
Problematic(data, k) ==
    LET v == data.f[k]
    IN  \/ v.t = "missing"
        \/ k = "price" /\ DecimalOf(v).exc # "None"
        \/ k = "available" /\ v.t # "bool"
        \/ k = "category" /\ (v.t # "str" \/ v.s \notin CategoryNames)

Problems(data) == {i \in 1..Len(FieldOrder) : Problematic(data, FieldOrder[i])}

\* the first problematic field of a mapping that has one
FirstProblem(data) ==
    FieldOrder[CHOOSE i \in Problems(data) : \A j \in Problems(data) : i <= j]

\* the outcome out reports the problem of the field k of data
ReportsField(out, data, k) ==
    LET v == data.f[k]
    IN  IF v.t = "missing"
        THEN /\ out.exc = "DataValidationError"
             /\ out.msg = MsgMissing
             /\ out.detail = k
        ELSE IF k = "price"
        THEN IF DecimalOf(v).exc = "TypeError"
             THEN out.exc = "DataValidationError" /\ out.msg = MsgBadData
             ELSE out.exc = DecimalOf(v).exc
        ELSE /\ k = "available"
             /\ out.exc = "DataValidationError"
             /\ out.msg = MsgBoolean
             /\ out.detail = v.t

\* C15: when the input of deserialize has several problems the error
\* reported is the one of the first problematic field in the order name,
\* description, price, available, category, and an input that is not a
\* mapping reports the "bad or no data" error.
C15_ErrorPrecedence ==
    Deserialized
    => /\ (req.data.t = "dict" /\ Cardinality(Problems(req.data)) >= 2)
            => ReportsField(resp.out, req.data, FirstProblem(req.data))
       /\ req.data.t # "dict"
            => /\ resp.out.exc = "DataValidationError"
               /\ resp.out.msg = MsgBadData

\* available = "yes" together with a missing category reported the type
\* error of available
C15_Witness ==
    /\ Deserialized
    /\ req.data = Without(With(V1, "available", JStr(T_yes)), "category")
    /\ resp.out.msg = MsgBoolean
    /\ resp.out.detail = "str"

====
